---- MODULE Spec2Model ----
(***************************************************************************)
(* Model of views/system_info.py: the diagnostics page (SystemInfo) and    *)
(* the CO read-out widget (Aithre) of the HUD, with the probe and colour   *)
(* functions they use.  The source is Python 2.                            *)
(*                                                                         *)
(* Conventions                                                             *)
(*  - A Python call either returns a value or raises: Return(v) / Raise.   *)
(*  - None is the empty tuple; a (text, color) pair is a 2-tuple.          *)
(*  - A colour is [c |-> <<r, g, b>>, den |-> d]: channel i is c[i]/d, so  *)
(*    that a linear blend is exact.  The named colours have den = 1.       *)
(*  - A temperature is kept in thousandths of a degree (the unit of the    *)
(*    thermal file), so temp/1000 is exact.                                *)
(*  - The text returned by the address probe is the sequence of its        *)
(*    space-separated tokens; str.split(' ') yields that sequence.         *)
(*  - A sensor reading is Num(n), Text(s) or NoneReading.                  *)
(***************************************************************************)
EXTENDS Integers, Sequences, FiniteSets, TLC

(***************************************************************************)
(* Python values                                                           *)
(***************************************************************************)
None == <<>>

Return(v) == [raised |-> FALSE, value |-> v]

Raise == [raised |-> TRUE, value |-> None]

Num(n) == [kind |-> "num", n |-> n, s |-> ""]

Text(s) == [kind |-> "text", n |-> 0, s |-> s]

NoneReading == [kind |-> "None", n |-> 0, s |-> ""]

\* isinstance(x, basestring)
IsBasestring(x) == x.kind = "text"

\* Python 2 orders a str above every number: "abc" > 5 and "abc" >= 5 are True.
PyGT(x, n) == IF x.kind = "text" THEN TRUE ELSE x.n > n

PyGE(x, n) == IF x.kind = "text" THEN TRUE ELSE x.n >= n

\* "{}".format(x)
Fmt(x) == IF x.kind = "text" THEN x.s ELSE ToString(x.n)

(***************************************************************************)
(* lib.display colours and lib.colors helpers                              *)
(***************************************************************************)
Color(r, g, b) == [c |-> <<r, g, b>>, den |-> 1]

BLUE == Color(0, 0, 255)

GREEN == Color(0, 255, 0)

RED == Color(255, 0, 0)

YELLOW == Color(255, 255, 0)

GRAY == Color(128, 128, 128)

\* Two colours denote the same channel values.
SameColor(a, b) == \A i \in 1..3 : a.c[i] * b.den = b.c[i] * a.den

\* colors.clamp(minimum, value, maximum)
clamp(minimum, value, maximum) ==
    IF value < minimum THEN minimum
    ELSE IF value > maximum THEN maximum
    ELSE value

\* colors.get_color_mix(left, right, proportion): channel-wise linear blend,
\* proportion = p.n / p.d clamped to [0, 1].
get_color_mix(left, right, p) ==
    LET n == clamp(0, p.n, p.d)
    IN  [c   |-> [i \in 1..3 |-> left.c[i] * right.den * (p.d - n)
                                 + right.c[i] * left.den * n],
         den |-> left.den * right.den * p.d]

(***************************************************************************)
(* Module constants                                                        *)
(***************************************************************************)
NORMAL_TEMP == 50

REDLINE_TEMP == 80

\* temp = temp/1000
MILLI == 1000

IP_PERIOD == 120

TEMP_PERIOD == 60

\* aithre.CO_SAFE, aithre.CO_WARNING, aithre.BATTERY_SAFE, aithre.BATTERY_WARNING
CO_SAFE == 400

CO_WARNING == 700

BATTERY_SAFE == 75

BATTERY_WARNING == 25

(***************************************************************************)
(* Probes and colour functions                                             *)
(***************************************************************************)

\* get_ip_address without the except clause.
get_ip_address_uncaught(lookup) ==
    IF lookup.raised THEN Raise ELSE Return(<< lookup.value, GREEN >>)

\* get_ip_address(): lookup is the outcome of the hostname / address lookup,
\* Return(tokens) or Raise; the bare except turns a failure into the marker.
get_ip_address(lookup) ==
    IF lookup.raised
    THEN Return(<< <<"UNKNOWN">>, RED >>)
    ELSE Return(<< lookup.value, GREEN >>)

\* get_cpu_temp_text_color with the redline taken for the range.
get_cpu_temp_text_color_range(temperature) ==
    IF temperature > REDLINE_TEMP * MILLI THEN RED
    ELSE IF temperature > NORMAL_TEMP * MILLI THEN
        LET delta      == temperature - NORMAL_TEMP * MILLI
            temp_range == REDLINE_TEMP * MILLI
            clamped    == clamp(0, delta, temp_range)
            proportion == [n |-> clamped, d |-> temp_range]
        IN  get_color_mix(GREEN, RED, proportion)
    ELSE GREEN

\* get_cpu_temp_text_color(temperature), temperature in thousandths of a degree.
get_cpu_temp_text_color(temperature) ==
    IF temperature > REDLINE_TEMP * MILLI THEN RED
    ELSE IF temperature > NORMAL_TEMP * MILLI THEN
        LET delta      == temperature - NORMAL_TEMP * MILLI
            temp_range == (REDLINE_TEMP - NORMAL_TEMP) * MILLI
            clamped    == clamp(0, delta, temp_range)
            proportion == [n |-> clamped, d |-> temp_range]
        IN  get_color_mix(GREEN, RED, proportion)
    ELSE GREEN

\* "{0}C".format(int(math.floor(temp)))
CpuTempText(milli) == ToString(milli \div MILLI) \o "C"

\* get_cpu_temp(): thermal is the outcome of reading the thermal file:
\* kind "not_linux" (IS_LINUX false), "raise" (open/read/float fails) or
\* "milli" with the value read.
get_cpu_temp(thermal) ==
    IF thermal.kind = "milli"
    THEN Return(<< CpuTempText(thermal.n), get_cpu_temp_text_color(thermal.n) >>)
    ELSE Return(<< "---", GRAY >>)

\* get_aithre_co_color with >= for >.
get_aithre_co_color_inclusive(co_ppm) ==
    IF PyGE(co_ppm, CO_WARNING) THEN RED
    ELSE IF PyGE(co_ppm, CO_SAFE) THEN YELLOW
    ELSE BLUE

\* get_aithre_co_color(co_ppm)
get_aithre_co_color(co_ppm) ==
    IF PyGT(co_ppm, CO_WARNING) THEN RED
    ELSE IF PyGT(co_ppm, CO_SAFE) THEN YELLOW
    ELSE BLUE

\* get_aithre_battery_color(battery_percent)
get_aithre_battery_color(battery_percent) ==
    IF PyGE(battery_percent, BATTERY_SAFE) THEN GREEN
    ELSE IF PyGE(battery_percent, BATTERY_WARNING) THEN YELLOW
    ELSE RED

\* CombinedColor with the battery left out of the danger test.
CombinedColorCoDanger(co_color, battery_color) ==
    IF co_color = RED THEN RED
    ELSE IF co_color = YELLOW \/ battery_color = YELLOW THEN YELLOW
    ELSE BLUE

\* The last statement of __get_aithre_text_and_color__: the row colour from
\* the two component colours.
CombinedColor(co_color, battery_color) ==
    IF co_color = RED \/ battery_color = RED THEN RED
    ELSE IF co_color = YELLOW \/ battery_color = YELLOW THEN YELLOW
    ELSE BLUE

\* AbsentRow without the test of the flag.
AbsentRowNoFlag(enabled) == << "DISCONNECTED", RED >>

\* The return of __get_aithre_text_and_color__ when aithre.sensor is None.
AbsentRow(enabled) ==
    IF enabled THEN << "DISCONNECTED", RED >> ELSE << "DISABLED", BLUE >>

\* SystemInfo.__get_aithre_text_and_color__(): sensor is "None" or "sensor",
\* enabled is configuration.CONFIGURATION.aithre_enabled, battery and co are
\* the outcomes of sensor.get_battery() and sensor.get_co_level().
\* reads is the set of sensor methods that were called.
get_aithre_text_and_color(sensor, enabled, battery, co) ==
    IF sensor = "None"
    THEN [value |-> AbsentRow(enabled),
          battery_color |-> None, co_color |-> None, reads |-> {}]
    ELSE
        LET battery_suffix == IF ~battery.raised /\ IsBasestring(battery.value)
                              THEN "" ELSE "%"
            battery_color  == IF ~battery.raised /\ battery.value.kind # "None"
                              THEN get_aithre_battery_color(battery.value)
                              ELSE RED
            battery_text   == IF battery.raised THEN "ERR"
                              ELSE IF battery.value.kind # "None"
                              THEN "bat:" \o Fmt(battery.value) \o battery_suffix
                              ELSE "UNK"
            co_color       == IF ~co.raised /\ co.value.kind # "None"
                              THEN get_aithre_co_color(co.value)
                              ELSE RED
            co_text        == IF co.raised THEN "ERR"
                              ELSE IF co.value.kind # "None"
                              THEN "co:" \o Fmt(co.value) \o "ppm"
                              ELSE "UNK"
        IN  [value |-> << co_text \o " " \o battery_text,
                          CombinedColor(co_color, battery_color) >>,
             battery_color |-> battery_color, co_color |-> co_color,
             reads |-> {"get_battery", "get_co_level"}]

\* if self.__update_*_timer__ <= 0
TimerExpired(timer) == timer <= 0

\* self.__update_ip_timer__ = 0 / self.__update_temp_timer__ = 0 in __init__
InitIpTimer == 0

\* The temperature countdown started at its period.
InitTempTimerFull == TEMP_PERIOD

InitTempTimer == 0

\* ShowOffline whatever the latch.
ShowOfflineAlways(connected) == TRUE

\* if self.__has_been_connected__ (Aithre.render, on a None or text reading)
ShowOffline(connected) == connected

(***************************************************************************)
(* Inputs of the frames                                                    *)
(***************************************************************************)

\* Outcomes of the hostname / address lookup.
IpLookups == { Return(<<"10.0.0.5", "192.168.10.1">>), Raise }

Thermal(kind, n) == [kind |-> kind, n |-> n]

\* Outcomes of reading the thermal file, in the page's frames.
Thermals == { Thermal("not_linux", 0), Thermal("raise", 0),
              Thermal("milli", 45123), Thermal("milli", 65000),
              Thermal("milli", 85999) }

\* Outcomes of sensor.get_battery() and sensor.get_co_level().
BatteryCalls == { Return(Num(BATTERY_SAFE)), Return(Num(BATTERY_WARNING)),
                  Return(Num(BATTERY_WARNING - 1)), Return(NoneReading),
                  Return(Text("n/a")), Raise }

CoCalls == { Return(Num(CO_SAFE)), Return(Num(600)),
             Return(Num(CO_WARNING + 1)), Return(NoneReading),
             Return(Text("n/a")), Raise }

\* The same, reduced to one reading per outcome of the row, for the frames
\* that exercise the timers and the probes.
FewBatteryCalls == { Return(Num(BATTERY_SAFE)), Raise }

FewCoCalls == { Return(Num(600)), Return(NoneReading) }

\* One outcome of each lookup, for the frames that exercise the AITHRE row.
OneIpLookup == { Return(<<"10.0.0.5", "192.168.10.1">>) }

OneThermal == { Thermal("milli", 65000) }

\* Temperatures read by the colour function: every whole degree from
\* TempMargin below NORMAL_TEMP to TempMargin above REDLINE_TEMP, the
\* thousandths next to the two bounds and a few in between.
TempMargin == 5

TempGrid ==
    { d * MILLI : d \in (NORMAL_TEMP - TempMargin)..(REDLINE_TEMP + TempMargin) }
    \cup { NORMAL_TEMP * MILLI + 1, NORMAL_TEMP * MILLI - 1,
           REDLINE_TEMP * MILLI - 1, REDLINE_TEMP * MILLI + 1,
           NORMAL_TEMP * MILLI + 117, 64999, 65001, 72500 }

\* Numeric readings within ReadingMargin of the cut points.
ReadingMargin == 12

Around(cut) == (cut - ReadingMargin)..(cut + ReadingMargin)

CoPpms == Around(CO_SAFE) \cup Around(CO_WARNING) \cup {0, 600}

BatteryPercents == Around(BATTERY_SAFE) \cup Around(BATTERY_WARNING) \cup {0, 100}

\* Outcomes of sensor.get_co_level() in the frames of the widget.
WidgetCoCalls == { Return(Num(v)) : v \in CoPpms }
                 \cup { Return(NoneReading), Return(Text("n/a")), Raise }

\* No call was made.
NoCall == Return(NoneReading)

NoThermal == Thermal("none", 0)

NoLookup == Return(None)

(***************************************************************************)
(* State                                                                   *)
(***************************************************************************)
VARIABLES
    update_ip_timer,      \* SystemInfo.__update_ip_timer__
    update_temp_timer,    \* SystemInfo.__update_temp_timer__
    ip_address,           \* SystemInfo.__ip_address__
    cpu_temp,             \* SystemInfo.__cpu_temp__
    info_lines,           \* rows composed by the last SystemInfo.render
    sys_raised,           \* where the last SystemInfo.render raised, or "no"
    ip_sched,             \* history of the address probe
    temp_sched,           \* history of the temperature probe
    aithre_call,          \* inputs and locals of the last AITHRE row
    has_been_connected,   \* Aithre.__has_been_connected__
    widget,               \* history of the last Aithre.render
    call                  \* the last application of a colour function

vars == << update_ip_timer, update_temp_timer, ip_address, cpu_temp,
           info_lines, sys_raised, ip_sched, temp_sched, aithre_call,
           has_been_connected, widget, call >>

sys_vars == << update_ip_timer, update_temp_timer, ip_address, cpu_temp,
               info_lines, sys_raised, ip_sched, temp_sched, aithre_call >>

widget_vars == << has_been_connected, widget >>

\* History of one probe: by is who made the most recent probe ("none",
\* "init" or "render"), since the number of render calls after it, lookup the
\* outcome it saw; fired_at is the value of since + 1 at the call that made
\* the most recent render probe (0 if none) and after is who had made the
\* probe before that one.
Sched(by, since, lookup, fired_at, after) ==
    [by |-> by, since |-> since, lookup |-> lookup,
     fired_at |-> fired_at, after |-> after]

NoAithreCall ==
    [sensor |-> "None", enabled |-> FALSE, battery |-> NoCall, co |-> NoCall,
     battery_color |-> None, co_color |-> None, reads |-> {}, done |-> FALSE]

\* drawn is the (text, color) blitted by the frame, None if nothing was;
\* numeric_before says a numeric reading was drawn on an earlier frame and
\* numeric_drawn that one was drawn on this frame or an earlier one.
NoWidget ==
    [sensor |-> "None", enabled |-> FALSE, co |-> NoCall, called |-> FALSE,
     raised |-> FALSE, drawn |-> None, numeric_before |-> FALSE,
     numeric_drawn |-> FALSE]

NoColorCall == [fn |-> "none", args |-> << >>, results |-> << >>]

\* SystemInfo.__init__ and Aithre.__init__
Init ==
    /\ \E lookup \in IpLookups :
          /\ ip_address = get_ip_address(lookup).value
          /\ ip_sched = Sched("init", 0, lookup, 0, "none")
    /\ update_ip_timer = InitIpTimer
    /\ update_temp_timer = InitTempTimer
    /\ cpu_temp = None
    /\ temp_sched = Sched("none", 0, NoThermal, 0, "none")
    /\ info_lines = << >>
    /\ sys_raised = "no"
    /\ aithre_call = NoAithreCall
    /\ has_been_connected = FALSE
    /\ widget = NoWidget
    /\ call = NoColorCall

(***************************************************************************)
(* SystemInfo.render                                                       *)
(***************************************************************************)
Row(label, value) == [label |-> label, value |-> value]

\* The rows of info_lines, first row lowest on the screen.  The configuration
\* values (version, declination, traffic address, ownship, resolution) are
\* read-only and stand as fixed texts.
ComposeRows(ip, aithre_value, cpu) ==
    << Row("VERSION     : ", << "version", YELLOW >>),
       Row("DECLINATION : ", << "declination", BLUE >>),
       Row("TRAFFIC     : ", << "traffic", BLUE >>) >>
    \o [i \in 1..Len(ip[1]) |-> Row("IP          : ", << ip[1][i], ip[2] >>)]
    \o << Row("AITHRE      : ", aithre_value),
          Row("HUD CPU     : ", cpu),
          Row("OWNSHIP     : ", << "ownship", BLUE >>),
          Row("DISPLAY RES : ", << "resolution", BLUE >>) >>

\* line[1][0] and line[1][1] in the drawing loop fail on a None value.
DrawRaises(rows) == \E i \in 1..Len(rows) : rows[i].value = None

\* One call of SystemInfo.render.  lookup and thermal are consumed only if the
\* corresponding timer expires, battery and co only if the sensor is present.
SystemInfo_render(lookup, thermal, sensor, enabled, battery, co) ==
    LET ip_timer   == update_ip_timer - 1
        ip_fires   == TimerExpired(ip_timer)
        ip_probe   == get_ip_address(lookup)
        temp_timer == update_temp_timer - 1
        temp_fires == TimerExpired(temp_timer)
        temp_probe == get_cpu_temp(thermal)
        ip_now     == IF ip_fires THEN ip_probe.value ELSE ip_address
        cpu_now    == IF temp_fires THEN temp_probe.value ELSE cpu_temp
        aithre     == get_aithre_text_and_color(sensor, enabled, battery, co)
        rows       == ComposeRows(ip_now, aithre.value, cpu_now)
    IN
    IF ip_fires /\ ip_probe.raised THEN
        \* get_ip_address() raised out of render at the first timer
        /\ update_ip_timer' = ip_timer
        /\ sys_raised' = "get_ip_address"
        /\ UNCHANGED << update_temp_timer, ip_address, cpu_temp, info_lines,
                        ip_sched, temp_sched, aithre_call >>
    ELSE IF temp_fires /\ temp_probe.raised THEN
        \* get_cpu_temp() raised out of render at the second timer
        /\ update_ip_timer' = IF ip_fires THEN IP_PERIOD ELSE ip_timer
        /\ ip_address' = ip_now
        /\ ip_sched' = IF ip_fires
                       THEN Sched("render", 0, lookup, ip_sched.since + 1, ip_sched.by)
                       ELSE [ip_sched EXCEPT !.since = @ + 1]
        /\ update_temp_timer' = temp_timer
        /\ sys_raised' = "get_cpu_temp"
        /\ UNCHANGED << cpu_temp, info_lines, temp_sched, aithre_call >>
    ELSE
        /\ update_ip_timer' = IF ip_fires THEN IP_PERIOD ELSE ip_timer
        /\ ip_address' = ip_now
        /\ ip_sched' = IF ip_fires
                       THEN Sched("render", 0, lookup, ip_sched.since + 1, ip_sched.by)
                       ELSE [ip_sched EXCEPT !.since = @ + 1]
        /\ update_temp_timer' = IF temp_fires THEN TEMP_PERIOD ELSE temp_timer
        /\ cpu_temp' = cpu_now
        /\ temp_sched' = IF temp_fires
                         THEN Sched("render", 0, thermal, temp_sched.since + 1,
                                    temp_sched.by)
                         ELSE [temp_sched EXCEPT !.since = @ + 1]
        /\ aithre_call' = [sensor |-> sensor, enabled |-> enabled,
                           battery |-> battery, co |-> co,
                           battery_color |-> aithre.battery_color,
                           co_color |-> aithre.co_color,
                           reads |-> aithre.reads, done |-> TRUE]
        /\ info_lines' = rows
        /\ sys_raised' = IF DrawRaises(rows) THEN "draw" ELSE "no"

\* A frame of the diagnostics page, with the inputs the frame consumes drawn
\* from the given sets.
SystemInfoFrame(lookups, thermals, batteryCalls, coCalls) ==
    /\ \E lookup \in (IF TimerExpired(update_ip_timer - 1)
                      THEN lookups ELSE {NoLookup}) :
       \E thermal \in (IF TimerExpired(update_temp_timer - 1)
                       THEN thermals ELSE {NoThermal}) :
       \E sensor \in {"None", "sensor"} :
       \E enabled \in BOOLEAN :
       \E battery \in (IF sensor = "None" THEN {NoCall} ELSE batteryCalls) :
       \E co \in (IF sensor = "None" THEN {NoCall} ELSE coCalls) :
          SystemInfo_render(lookup, thermal, sensor, enabled, battery, co)
    /\ UNCHANGED << has_been_connected, widget, call >>

(***************************************************************************)
(* Aithre.render                                                           *)
(***************************************************************************)

\* str(int(co_level)) + " PPM"
CoPpmText(co_level) == ToString(co_level.n) \o " PPM"

\* One call of Aithre.render.  co is the outcome of sensor.get_co_level(),
\* consumed only if the sensor is present and the feature enabled.
Aithre_render(sensor, enabled, co) ==
    LET frame(called, raised, drawn, numeric) ==
            [sensor |-> sensor, enabled |-> enabled, co |-> co,
             called |-> called, raised |-> raised, drawn |-> drawn,
             numeric_before |-> widget.numeric_drawn,
             numeric_drawn |-> widget.numeric_drawn \/ numeric]
    IN
    IF sensor # "None" /\ enabled THEN
        IF co.raised THEN
            \* get_co_level() is called outside any try block
            /\ widget' = frame(TRUE, TRUE, None, FALSE)
            /\ UNCHANGED has_been_connected
        ELSE IF co.value.kind = "None" \/ IsBasestring(co.value) THEN
            IF ShowOffline(has_been_connected)
            THEN /\ widget' = frame(TRUE, FALSE, << "OFFLINE", RED >>, FALSE)
                 /\ UNCHANGED has_been_connected
            ELSE /\ widget' = frame(TRUE, FALSE, None, FALSE)
                 /\ UNCHANGED has_been_connected
        ELSE
            /\ widget' = frame(TRUE, FALSE,
                               << CoPpmText(co.value),
                                  get_aithre_co_color(co.value) >>, TRUE)
            /\ has_been_connected' = TRUE
    ELSE
        /\ widget' = frame(FALSE, FALSE, None, FALSE)
        /\ UNCHANGED has_been_connected

\* A frame of the widget.
AithreFrame ==
    /\ \E sensor \in {"None", "sensor"} :
       \E enabled \in BOOLEAN :
       \E co \in (IF sensor # "None" /\ enabled THEN WidgetCoCalls ELSE {NoCall}) :
          Aithre_render(sensor, enabled, co)
    /\ UNCHANGED << sys_vars, call >>

(***************************************************************************)
(* Applications of the colour functions: one application, to inputs drawn  *)
(* from the bounded sets.                                                  *)
(***************************************************************************)
ColorCall(fn, args, results) == [fn |-> fn, args |-> args, results |-> results]

\* get_cpu_temp_text_color at two temperatures
ApplyCpuTempColor ==
    /\ call.fn = "none"
    /\ \E t1 \in TempGrid : \E t2 \in TempGrid :
          call' = ColorCall("get_cpu_temp_text_color", << t1, t2 >>,
                            << get_cpu_temp_text_color(t1),
                               get_cpu_temp_text_color(t2) >>)
    /\ UNCHANGED << sys_vars, widget_vars >>

\* get_aithre_co_color at two readings
ApplyCoColor ==
    /\ call.fn = "none"
    /\ \E p1 \in CoPpms : \E p2 \in CoPpms :
          call' = ColorCall("get_aithre_co_color", << p1, p2 >>,
                            << get_aithre_co_color(Num(p1)),
                               get_aithre_co_color(Num(p2)) >>)
    /\ UNCHANGED << sys_vars, widget_vars >>

\* get_aithre_battery_color at two readings
ApplyBatteryColor ==
    /\ call.fn = "none"
    /\ \E b1 \in BatteryPercents : \E b2 \in BatteryPercents :
          call' = ColorCall("get_aithre_battery_color", << b1, b2 >>,
                            << get_aithre_battery_color(Num(b1)),
                               get_aithre_battery_color(Num(b2)) >>)
    /\ UNCHANGED << sys_vars, widget_vars >>

\* The colour of the AITHRE row for a CO reading and a battery reading
ApplyRowColor ==
    /\ call.fn = "none"
    /\ \E p \in CoPpms : \E b \in BatteryPercents :
          call' = ColorCall("aithre_row", << p, b >>,
                            << get_aithre_text_and_color(
                                   "sensor", TRUE, Return(Num(b)),
                                   Return(Num(p))).value[2] >>)
    /\ UNCHANGED << sys_vars, widget_vars >>

(***************************************************************************)
(* Specifications                                                          *)
(***************************************************************************)

\* The diagnostics page, every outcome of the two probes.
Next == SystemInfoFrame(IpLookups, Thermals, FewBatteryCalls, FewCoCalls)

Spec == Init /\ [][Next]_vars

\* The diagnostics page, every outcome of the sensor reads.
NextRow == SystemInfoFrame(OneIpLookup, OneThermal, BatteryCalls, CoCalls)

SpecRow == Init /\ [][NextRow]_vars

\* The widget.
NextAithre == AithreFrame

SpecAithre == Init /\ [][NextAithre]_vars

\* The colour functions.
NextColor ==
    \/ ApplyCpuTempColor
    \/ ApplyCoColor
    \/ ApplyBatteryColor
    \/ ApplyRowColor

SpecColor == Init /\ [][NextColor]_vars

(***************************************************************************)
(* Properties                                                              *)
(***************************************************************************)

\* The value of the AITHRE row composed by the last SystemInfo.render.
AithreRow ==
    info_lines[CHOOSE i \in 1..Len(info_lines) :
                   info_lines[i].label = "AITHRE      : "].value

\* DANGER > CAUTION > SAFE/OK; battery-safe GREEN and CO-safe BLUE are SAFE.
Severity(color) ==
    IF color = RED THEN 2 ELSE IF color = YELLOW THEN 1 ELSE 0

ColorOfSeverity(s) ==
    IF s = 2 THEN RED ELSE IF s = 1 THEN YELLOW ELSE BLUE

Max(a, b) == IF a >= b THEN a ELSE b

SensorRowDone == aithre_call.done /\ aithre_call.sensor = "sensor"

\* C1: with the sensor handle present, the colour of the AITHRE row is the
\* colour of the larger of the severities of the battery colour and the CO
\* colour: RED if either is RED, else YELLOW if either is YELLOW, else BLUE.
C1_WorstOf ==
    SensorRowDone =>
        /\ aithre_call.battery_color \in {GREEN, YELLOW, RED}
        /\ aithre_call.co_color \in {BLUE, YELLOW, RED}
        /\ AithreRow[2] = ColorOfSeverity(Max(Severity(aithre_call.co_color),
                                              Severity(aithre_call.battery_color)))

\* A frame with the battery in its caution band and the CO level safe.
C1_Witness ==
    /\ SensorRowDone
    /\ aithre_call.battery_color = YELLOW
    /\ aithre_call.co_color = BLUE
    /\ AithreRow[2] = YELLOW

\* C7: with the sensor handle absent the AITHRE row is ('DISABLED', BLUE) if
\* aithre_enabled is off and ('DISCONNECTED', RED) if it is on, and neither
\* get_battery nor get_co_level is called.
C7_AbsentSensor ==
    (aithre_call.done /\ aithre_call.sensor = "None") =>
        /\ AithreRow = IF aithre_call.enabled
                       THEN << "DISCONNECTED", RED >>
                       ELSE << "DISABLED", BLUE >>
        /\ aithre_call.reads = {}

\* A frame with the handle absent and the flag off.
C7_Witness ==
    /\ aithre_call.done
    /\ aithre_call.sensor = "None"
    /\ ~aithre_call.enabled
    /\ AithreRow = << "DISABLED", BLUE >>

\* C8: whenever aithre_enabled is off, the AITHRE row is in the neutral
\* colour BLUE, whatever the sensor handle and its readings.
C8_DisabledIsNeutral ==
    (aithre_call.done /\ ~aithre_call.enabled) => AithreRow[2] = BLUE

\* C2, as stated: counted from a metric's most recent probe, whoever made
\* it, the next probe is made on the P-th render call and on no earlier one.
C2_PthCallAfterAnyProbe ==
    /\ ip_sched.since < IP_PERIOD
    /\ temp_sched.since < TEMP_PERIOD
    /\ (ip_sched.by = "render" /\ ip_sched.after # "none")
           => ip_sched.fired_at = IP_PERIOD
    /\ (temp_sched.by = "render" /\ temp_sched.after # "none")
           => temp_sched.fired_at = TEMP_PERIOD

\* The schedule the code keeps: counted from a metric's most recent probe
\* made by a render call, the next probe is made on the P-th render call and
\* on no earlier one; the first render call after construction probes both
\* metrics, the address although the constructor has just probed it.
C2_PthCallAfterRenderProbe ==
    /\ ip_sched.since < IP_PERIOD
    /\ temp_sched.since < TEMP_PERIOD
    /\ ip_sched.by = "render" =>
           /\ ip_sched.after = "render" => ip_sched.fired_at = IP_PERIOD
           /\ ip_sched.after = "init" => ip_sched.fired_at = 1
           /\ ip_sched.after \in {"render", "init"}
    /\ temp_sched.by = "render" =>
           /\ temp_sched.after = "render" => temp_sched.fired_at = TEMP_PERIOD
           /\ temp_sched.after = "none" => temp_sched.fired_at = 1
           /\ temp_sched.after \in {"render", "none"}

\* Both probes have just fired, each on the P-th call after a render probe.
C2_Witness ==
    /\ ip_sched.by = "render" /\ ip_sched.after = "render"
    /\ ip_sched.since = 0 /\ ip_sched.fired_at = IP_PERIOD
    /\ temp_sched.by = "render" /\ temp_sched.after = "render"
    /\ temp_sched.since = 0 /\ temp_sched.fired_at = TEMP_PERIOD

\* C3: neither probe raises out of the timer section of render, whatever the
\* lookup does, and while the most recent lookup of a metric is a failed one
\* the cached sample is (UNKNOWN, RED) for the address and ('---', GRAY) for
\* the CPU temperature.
C3_ProbeFailureResilience ==
    /\ sys_raised \notin {"get_ip_address", "get_cpu_temp"}
    /\ ip_sched.lookup.raised => ip_address = << <<"UNKNOWN">>, RED >>
    /\ temp_sched.lookup.kind = "raise" => cpu_temp = << "---", GRAY >>

\* Both of the most recent lookups, made by a render call, failed.
C3_Witness ==
    /\ ip_sched.by = "render" /\ ip_sched.lookup.raised
    /\ temp_sched.by = "render" /\ temp_sched.lookup.kind = "raise"
    /\ ip_address = << <<"UNKNOWN">>, RED >>
    /\ cpu_temp = << "---", GRAY >>
    /\ sys_raised = "no"

\* C9: in every render call, the first included, the rows are composed from
\* an address sample and a CPU-temperature sample that are the pairs their
\* probes returned, never None.
C9_FirstFrameHasData ==
    (info_lines # << >> \/ sys_raised # "no" \/ ip_sched.by = "render") =>
        /\ sys_raised = "no"
        /\ ip_address = get_ip_address(ip_sched.lookup).value
        /\ cpu_temp = get_cpu_temp(temp_sched.lookup).value
        /\ Len(ip_address) = 2 /\ Len(cpu_temp) = 2
        /\ \A i \in 1..Len(info_lines) : Len(info_lines[i].value) = 2
        /\ \E i \in 1..Len(info_lines) :
              /\ info_lines[i].label = "HUD CPU     : "
              /\ info_lines[i].value = cpu_temp
        /\ \E i \in 1..Len(info_lines) :
              /\ info_lines[i].label = "IP          : "
              /\ info_lines[i].value = << ip_address[1][1], ip_address[2] >>

\* The state after the first render call.
C9_Witness ==
    /\ ip_sched.by = "render" /\ ip_sched.after = "init" /\ ip_sched.since = 0
    /\ info_lines # << >>
    /\ cpu_temp # None

\* C6: whatever the sensor does (absent, a number, None, text, or raising),
\* SystemInfo.render and Aithre.render both run to completion: neither
\* raises to the frame driver.
C6_NoFailurePropagates ==
    /\ sys_raised = "no"
    /\ ~widget.raised

WidgetReadingIsNumeric(w) ==
    /\ w.sensor = "sensor"
    /\ w.enabled
    /\ ~w.co.raised
    /\ w.co.value.kind = "num"

\* What the widget may draw, frame by frame.
WidgetDrawing ==
    /\ has_been_connected = widget.numeric_drawn
    /\ widget.drawn = << "OFFLINE", RED >> =>
           /\ widget.sensor = "sensor" /\ widget.enabled /\ ~widget.co.raised
           /\ widget.co.value.kind \in {"None", "text"}
           /\ widget.numeric_before
    /\ ~widget.numeric_drawn => widget.drawn = None
    /\ (widget.sensor = "None" \/ ~widget.enabled) => widget.drawn = None

\* C10: __has_been_connected__ starts false, becomes true only on a frame
\* where the sensor is present, the feature enabled and get_co_level returns
\* a number, and never returns to false; 'OFFLINE' in RED is drawn only on a
\* frame whose reading is None or text and only after a numeric reading was
\* drawn on an earlier frame; nothing is drawn before the first numeric
\* reading, nor on a frame where the sensor is absent or the feature disabled.
C10_ConnectionLatch ==
    /\ ~has_been_connected
    /\ [][ /\ has_been_connected => has_been_connected'
           /\ (~has_been_connected /\ has_been_connected')
                  => WidgetReadingIsNumeric(widget') ]_vars
    /\ []WidgetDrawing

\* OFFLINE is drawn, after a numeric reading on an earlier frame.
C10_Witness ==
    /\ widget.drawn = << "OFFLINE", RED >>
    /\ has_been_connected
    /\ widget.numeric_before
    /\ widget.co.value.kind = "None"

RECURSIVE GCD(_, _)
GCD(a, b) == IF b = 0 THEN a ELSE GCD(b, a % b)

\* The fraction a / b (a >= 0, b > 0) in lowest terms.
Reduce(a, b) == << a \div GCD(a, b), b \div GCD(a, b) >>

\* Channel i of a colour, in lowest terms.
Channel(color, i) == Reduce(color.c[i], color.den)

\* Channel i of the colour equals a / b.
ChannelIs(color, i, a, b) == Channel(color, i) = Reduce(a, b)

\* x <= y and x < y for fractions in lowest terms
FracLeq(x, y) == x[1] * y[2] <= y[1] * x[2]

FracLess(x, y) == x[1] * y[2] < y[1] * x[2]

TempBandOk(t, color) ==
    LET low   == NORMAL_TEMP * MILLI
        high  == REDLINE_TEMP * MILLI
    IN  /\ t <= low => SameColor(color, GREEN)
        /\ t >= high => SameColor(color, RED)
        /\ (low < t /\ t < high) =>
              \* red = 255 (t - 50) / 30, green = 255 (80 - t) / 30, blue = 0
              /\ ChannelIs(color, 1, 255 * (t - low), high - low)
              /\ ChannelIs(color, 2, 255 * (high - t), high - low)
              /\ ChannelIs(color, 3, 0, 1)
              \* strictly between the end points on the channels they differ on
              /\ FracLess(<< 0, 1 >>, Channel(color, 1))
              /\ FracLess(Channel(color, 1), << 255, 1 >>)
              /\ FracLess(<< 0, 1 >>, Channel(color, 2))
              /\ FracLess(Channel(color, 2), << 255, 1 >>)

\* Going from colour a to colour b is a move toward RED: red does not fall
\* and green does not rise.
TowardRed(a, b) ==
    /\ FracLeq(Channel(a, 1), Channel(b, 1))
    /\ FracLeq(Channel(b, 2), Channel(a, 2))

StrictlyTowardRed(a, b) ==
    /\ FracLess(Channel(a, 1), Channel(b, 1))
    /\ FracLess(Channel(b, 2), Channel(a, 2))

\* C4: get_cpu_temp_text_color is the clamped linear blend: GREEN up to 50
\* degrees, RED from 80 degrees, and in between the GREEN-to-RED mix at
\* proportion (t - 50) / 30, strictly between the end points on the red and
\* green channels (blue is 0 in both) and moving toward RED as t grows; at
\* 65 degrees it is the midpoint (127.5, 127.5, 0).
C4_ClampedLinearBlend ==
    call.fn = "get_cpu_temp_text_color" =>
        LET t1 == call.args[1]
            t2 == call.args[2]
            c1 == call.results[1]
            c2 == call.results[2]
        IN  /\ TempBandOk(t1, c1)
            /\ TempBandOk(t2, c2)
            /\ t1 <= t2 => TowardRed(c1, c2)
            /\ (NORMAL_TEMP * MILLI <= t1 /\ t1 < t2 /\ t2 <= REDLINE_TEMP * MILLI)
                   => StrictlyTowardRed(c1, c2)
            /\ t1 = 65 * MILLI =>
                   /\ ChannelIs(c1, 1, 255, 2)
                   /\ ChannelIs(c1, 2, 255, 2)
                   /\ ChannelIs(c1, 3, 0, 1)

\* The function applied at 65 degrees and at the redline.
C4_Witness ==
    /\ call.fn = "get_cpu_temp_text_color"
    /\ call.args = << 65 * MILLI, REDLINE_TEMP * MILLI >>
    /\ ChannelIs(call.results[1], 1, 255, 2)
    /\ ChannelIs(call.results[1], 2, 255, 2)
    /\ SameColor(call.results[2], RED)

CoBand(ppm) ==
    IF ppm <= CO_SAFE THEN "safe"
    ELSE IF ppm <= CO_WARNING THEN "caution" ELSE "danger"

BatteryBand(percent) ==
    IF percent >= BATTERY_SAFE THEN "safe"
    ELSE IF percent >= BATTERY_WARNING THEN "caution" ELSE "danger"

BandSeverity(band) ==
    IF band = "danger" THEN 2 ELSE IF band = "caution" THEN 1 ELSE 0

\* C5: get_aithre_co_color and get_aithre_battery_color each cut their domain
\* into three bands at two cut points; the CO severity never falls as the ppm
\* rise (safe up to CO_SAFE, caution up to CO_WARNING, danger above), the
\* battery severity never falls as the percentage falls (safe from
\* BATTERY_SAFE, caution from BATTERY_WARNING, danger below); a CO reading
\* in the caution band with a battery reading in the safe band gives a
\* YELLOW row.
C5_ThresholdBands ==
    /\ call.fn = "get_aithre_co_color" =>
          /\ \A i \in 1..2 :
                /\ Severity(call.results[i]) = BandSeverity(CoBand(call.args[i]))
                /\ call.results[i] \in {BLUE, YELLOW, RED}
          /\ call.args[1] <= call.args[2] =>
                Severity(call.results[1]) <= Severity(call.results[2])
    /\ call.fn = "get_aithre_battery_color" =>
          /\ \A i \in 1..2 :
                /\ Severity(call.results[i]) = BandSeverity(BatteryBand(call.args[i]))
                /\ call.results[i] \in {GREEN, YELLOW, RED}
          /\ call.args[1] <= call.args[2] =>
                Severity(call.results[1]) >= Severity(call.results[2])
    /\ (/\ call.fn = "aithre_row"
        /\ CoBand(call.args[1]) = "caution"
        /\ BatteryBand(call.args[2]) = "safe") => call.results[1] = YELLOW

\* 600 ppm with a battery at the safe cut point.
C5_Witness ==
    /\ call.fn = "aithre_row"
    /\ call.args = << 600, BATTERY_SAFE >>
    /\ CO_SAFE < 600 /\ 600 < CO_WARNING
    /\ call.results = << YELLOW >>

====
